---- MODULE Spec2Model ----
(***************************************************************************)
(* Session orchestration and status reconciliation of claude-flow:        *)
(* StateStore (sqlite tables), SessionManager / SessionHandle,            *)
(* GitHubMonitor (polling loop) and the part of EventLoop.run that starts *)
(* a session and registers its tracked issues.                            *)
(*                                                                         *)
(* Every handler is one atomic action; the only suspension point inside a *)
(* monitor tick is the remote status fetch (getProjectItemStatuses), so a *)
(* tick is split there.                                                   *)
(***************************************************************************)
EXTENDS Integers, Sequences, FiniteSets, TLC

\* ---------------------------------------------------------------- bounds
MaxWorkers == 3       \* processes spawned in one behaviour
MaxEvents == 5        \* rows of session_events in one behaviour
MaxTransitions == 2   \* rows of status_transitions in one behaviour
MaxPolls == 2         \* executions of poll() suspended at the same time
MaxWaits == 2         \* calls of waitForCompletion on one handle
MaxOutput == 4        \* bytes a worker writes to its standard output

\* ------------------------------------------------------------- constants
Undefined == "undefined"

\* the exit code `null` of a process ended by a signal, as a number that is
\* no exit code
Null == -1

\* the Status values the project board shows in this model, and 'Unknown',
\* which getProjectItemStatuses substitutes for an item without a Status
Statuses == {"Developer Review", "Ready", "Unknown"}

ExitCodes == {0, 1}

\* the chunks a worker writes to its error stream
MaxChunks == 1

\* DEFAULT_CONFIG.personas, restricted to the personas used here
DEFAULT_CONFIG ==
  [personas |->
     [architect |-> [targetStatuses |-> <<"Test Case Design Review", "Ready">>,
                     feedbackStatus |-> "Developer Review"],
      qa_review |-> [targetStatuses |-> <<"Developer Review", "Ready">>,
                     feedbackStatus |-> "Test Case Design Review"]]]

loadConfig(projectPath) == DEFAULT_CONFIG

\* the requests of the model: (issue, persona, project) and the issue graph
\* the external source returns for the root issue (root first, then children)
Configs ==
  { [issueNumber |-> 200, persona |-> "architect", projectPath |-> "/p"],
    [issueNumber |-> 300, persona |-> "qa_review", projectPath |-> "/p"] }

\* requests over projects, roles and issues that differ in one field or in
\* several; a project path may itself contain the separator of the name
Requests ==
  [issueNumber : {20, 200}, persona : {"architect", "qa_review"},
   projectPath : {"/p", "/p:architect"}]

\* the request the orchestrator is run for
Monitored == { c \in Configs : c.issueNumber = 200 }

Graphs(issueNumber) ==
  IF issueNumber = 200 THEN { <<200>>, <<200, 201>> } ELSE { <<issueNumber>> }

Range(f) == { f[x] : x \in DOMAIN f }

NAMESPACE == "6ba7b810-9dad-11d1-80b4-00c04fd430c8"

\* the version 5 UUID of a name in a namespace: a hash, kept here as the pair
\* it is computed from, so that different names have different UUIDs
uuidv5(name, namespace) == <<"uuidv5", namespace, name>>

\* a name built from the project and the issue only
sessionName_NoPersona(issueNumber, persona, projectPath) ==
  projectPath \o ":" \o ToString(issueNumber)

\* the template string `${projectPath}:${persona}:${issueNumber}`
sessionName(issueNumber, persona, projectPath) ==
  projectPath \o ":" \o persona \o ":" \o ToString(issueNumber)

generateSessionId(issueNumber, persona, projectPath) ==
  uuidv5(sessionName(issueNumber, persona, projectPath), NAMESPACE)

ConfigId(c) == generateSessionId(c.issueNumber, c.persona, c.projectPath)

Ids == { ConfigId(c) : c \in Configs }

\* ----------------------------------------------------------- StateStore
EmptyDb ==
  [sessions |-> <<>>, issue_graph |-> <<>>,
   session_events |-> <<>>, status_transitions |-> <<>>]

\* SELECT * FROM sessions WHERE id = ?: the row, or undefined
hasSession(db, id) == id \in DOMAIN db.sessions

getSession(db, id) ==
  IF hasSession(db, id) THEN db.sessions[id] ELSE Undefined

\* INSERT OR REPLACE in place of INSERT: no second row is ever rejected
createSessionFails_Never(db, input) == FALSE

\* INSERT INTO sessions: the primary key rejects a second row for the id
createSessionFails(db, input) == input.id \in DOMAIN db.sessions

\* waiting_for_statuses NULL reads back as undefined, on which
\* waitingForStatuses?.includes(x) is false for every x: written <<>> here
createSession(db, input) ==
  [db EXCEPT !.sessions =
     [i \in DOMAIN db.sessions \cup {input.id} |->
        IF i = input.id
        THEN [id |-> input.id, issueNumber |-> input.issueNumber,
              persona |-> input.persona, status |-> "active",
              completedAt |-> FALSE, resumeCount |-> 0,
              waitingForStatuses |-> <<>>,
              projectPath |-> input.projectPath]
        ELSE db.sessions[i]]]

\* SELECT * FROM sessions WHERE issue_number = ?
getSessionsForIssue(db, issueNumber) ==
  { db.sessions[i] :
      i \in { j \in DOMAIN db.sessions : db.sessions[j].issueNumber = issueNumber } }

getSessionsByStatus(db, statuses) ==
  { db.sessions[i] : i \in { j \in DOMAIN db.sessions : db.sessions[j].status \in statuses } }

\* UPDATE sessions SET ... with no WHERE clause: every row gets the fields
updateSession_AllRows(db, id, updates) ==
  IF id \notin DOMAIN db.sessions THEN db
  ELSE [db EXCEPT !.sessions =
          [i \in DOMAIN db.sessions |->
             [db.sessions[i] EXCEPT
                !.status = IF "status" \in DOMAIN updates
                           THEN updates.status ELSE @,
                !.resumeCount = IF "resumeCount" \in DOMAIN updates
                                THEN updates.resumeCount ELSE @,
                !.completedAt = IF "completedAt" \in DOMAIN updates
                                THEN updates.completedAt ELSE @,
                !.waitingForStatuses =
                   IF "waitingForStatuses" \in DOMAIN updates
                   THEN updates.waitingForStatuses ELSE @]]]

\* UPDATE sessions SET ... WHERE id = ?: only the given fields, no row no change
updateSession(db, id, updates) ==
  IF id \notin DOMAIN db.sessions THEN db
  ELSE LET old == db.sessions[id]
           new == [old EXCEPT
                     !.status = IF "status" \in DOMAIN updates
                                THEN updates.status ELSE @,
                     !.resumeCount = IF "resumeCount" \in DOMAIN updates
                                     THEN updates.resumeCount ELSE @,
                     !.completedAt = IF "completedAt" \in DOMAIN updates
                                     THEN updates.completedAt ELSE @,
                     !.waitingForStatuses =
                        IF "waitingForStatuses" \in DOMAIN updates
                        THEN updates.waitingForStatuses ELSE @]
       IN [db EXCEPT !.sessions[id] = new]

upsertIssueGraph(db, entry) ==
  LET k == <<entry.issueNumber, entry.sessionId>>
  IN [db EXCEPT !.issue_graph =
        [x \in DOMAIN db.issue_graph \cup {k} |->
           IF x = k
           THEN [current_status |-> entry.currentStatus,
                 target_status |-> entry.targetStatus]
           ELSE db.issue_graph[x]]]

getTrackedIssues(db, sessionId) ==
  { k[1] : k \in { x \in DOMAIN db.issue_graph : x[2] = sessionId } }

\* an UPDATE whose WHERE clause matches no row of issue_graph
updateIssueStatus_Keep(db, issueNumber, sessionId, status) == db

updateIssueStatus(db, issueNumber, sessionId, status) ==
  IF <<issueNumber, sessionId>> \in DOMAIN db.issue_graph
  THEN [db EXCEPT !.issue_graph[<<issueNumber, sessionId>>].current_status = status]
  ELSE db

getIssueStatus(db, issueNumber, sessionId) ==
  IF <<issueNumber, sessionId>> \in DOMAIN db.issue_graph
  THEN db.issue_graph[<<issueNumber, sessionId>>].current_status
  ELSE Undefined

\* recordEvent keeping one row per session and event type (an upsert)
recordEvent_Upsert(db, sessionId, eventType, data) ==
  LET same(e) == e.session_id = sessionId /\ e.event_type = eventType
  IN [db EXCEPT !.session_events =
        Append(SelectSeq(@, LAMBDA e : ~same(e)),
               [session_id |-> sessionId, event_type |-> eventType,
                event_data |-> data])]

recordEvent(db, sessionId, eventType, data) ==
  [db EXCEPT !.session_events =
     Append(@, [session_id |-> sessionId, event_type |-> eventType,
                event_data |-> data])]

getSessionEvents(db, sessionId) ==
  SelectSeq(db.session_events, LAMBDA e : e.session_id = sessionId)

recordTransition(db, issueNumber, fromStatus, toStatus) ==
  [db EXCEPT !.status_transitions =
     Append(@, [issue_number |-> issueNumber, from_status |-> fromStatus,
                to_status |-> toStatus])]

\* ------------------------------------------------------- SessionManager
\* a call's outcome: the store after it, the handles it spawned (none or one)
\* and the error it threw ("none" when it returned a handle)
Outcome(db, spawned, error) == [db |-> db, spawned |-> spawned, error |-> error]

\* new SessionHandle(sessionId, spawn('claude', args)): a running process;
\* emits is what the handle has emitted of 'exit' and 'processError',
\* promises the promises waitForCompletion has returned, written the bytes the
\* process has written to its standard output, stdout those of them not yet
\* delivered to the 'data' handler, outputBuffer the handle's buffer and
\* parsed the 'message' and 'raw' events it has emitted
SessionHandle(sessionId, invocation, attempt) ==
  [sessionId |-> sessionId, invocation |-> invocation, attempt |-> attempt,
   state |-> "running", emits |-> <<>>, promises |-> <<>>,
   written |-> <<>>, stdout |-> <<>>, outputBuffer |-> <<>>, parsed |-> <<>>]

\* waitForCompletion(): a new promise, with listeners for 'exit' and
\* 'processError' registered at the time of the call
waitForCompletion(handle) ==
  [handle EXCEPT !.promises = Append(@, [state |-> "pending"])]

\* the handle emits 'exit' or 'processError': the listeners registered so far
\* run; resolve and reject have no effect on a promise already settled
settle(handle, outcome) ==
  [handle EXCEPT !.promises =
     [k \in DOMAIN @ |-> IF @[k].state = "pending" THEN outcome ELSE @[k]]]

\* the characters a worker writes, and their UTF-8 encoding: "1" is a JSON
\* text, "x" is not, and the accented letter takes two bytes
Chars == {"1", "x", " ", "\n", "e'"}

encode(ch) == IF ch = "e'" THEN <<"C3", "A9">> ELSE <<ch>>

\* Buffer.toString(): UTF-8 decoding, U+FFFD for a byte that is not part of a
\* complete sequence inside the buffer
RECURSIVE toString(_)
toString(data) ==
  IF data = <<>> THEN <<>>
  ELSE IF Head(data) = "C3" /\ Len(data) >= 2 /\ data[2] = "A9"
       THEN <<"e'">> \o toString(Tail(Tail(data)))
       ELSE IF Head(data) \in {"C3", "A9"}
            THEN <<"U+FFFD">> \o toString(Tail(data))
            ELSE <<Head(data)>> \o toString(Tail(data))

\* text.split('\n'), piece being the part of the current line read so far
RECURSIVE split(_, _)
split(text, piece) ==
  IF text = <<>> THEN <<piece>>
  ELSE IF Head(text) = "\n"
       THEN <<piece>> \o split(Tail(text), <<>>)
       ELSE split(Tail(text), Append(piece, Head(text)))

RECURSIVE trimStart(_)
trimStart(line) ==
  IF line # <<>> /\ Head(line) = " " THEN trimStart(Tail(line)) ELSE line

RECURSIVE trimEnd(_)
trimEnd(line) ==
  IF line # <<>> /\ line[Len(line)] = " "
  THEN trimEnd(SubSeq(line, 1, Len(line) - 1)) ELSE line

trim(line) == trimEnd(trimStart(line))

\* JSON.parse(line) succeeds: over these characters, on a number with
\* whitespace around it
JSONparses(line) ==
  trim(line) # <<>> /\ \A k \in DOMAIN trim(line) : trim(line)[k] = "1"

\* the events of the loop of parseStreamJson over the complete lines
RECURSIVE parseLines(_)
parseLines(lines) ==
  IF lines = <<>> THEN <<>>
  ELSE LET line == Head(lines)
       IN (IF trim(line) # <<>>
           THEN IF JSONparses(line)
                THEN <<[type |-> "message", event |-> trim(line)]>>
                ELSE <<[type |-> "raw", line |-> line]>>
           ELSE <<>>) \o parseLines(Tail(lines))

\* parseStreamJson on the buffer: what stays buffered and the events emitted
parseStreamJson(outputBuffer) ==
  LET lines == split(outputBuffer, <<>>)
  IN [outputBuffer |-> lines[Len(lines)],
      events |-> parseLines(SubSeq(lines, 1, Len(lines) - 1))]

\* stdout.on('data') of a handle
onData(handle, data) ==
  LET r == parseStreamJson(handle.outputBuffer \o toString(data))
  IN [handle EXCEPT !.outputBuffer = r.outputBuffer,
                    !.parsed = @ \o r.events]

\* start inserting a row whether or not it replaces a session
start_IgnoreReplace(db, sessionId, config, replace) ==
  IF createSessionFails(db, [id |-> sessionId])
  THEN Outcome(db, <<>>, "SqliteError")
  ELSE LET db1 == createSession(db, [id |-> sessionId,
                                     issueNumber |-> config.issueNumber,
                                     persona |-> config.persona,
                                     projectPath |-> config.projectPath])
           db2 == recordEvent(db1, sessionId, "started",
                              [issueNumber |-> config.issueNumber,
                               persona |-> config.persona])
       IN Outcome(db2, <<SessionHandle(sessionId, "--session-id", 0)>>, "none")

start(db, sessionId, config, replace) ==
  IF ~replace /\ createSessionFails(db, [id |-> sessionId])
  THEN Outcome(db, <<>>, "SqliteError")
  ELSE LET db1 == IF replace
                  THEN updateSession(db, sessionId,
                                     [status |-> "active", resumeCount |-> 0])
                  ELSE createSession(db, [id |-> sessionId,
                                          issueNumber |-> config.issueNumber,
                                          persona |-> config.persona,
                                          projectPath |-> config.projectPath])
           db2 == recordEvent(db1, sessionId, "started",
                              [issueNumber |-> config.issueNumber,
                               persona |-> config.persona])
       IN Outcome(db2, <<SessionHandle(sessionId, "--session-id", 0)>>, "none")

\* resume passing the worker the attempt number of the previous run
resume_StaleAttempt(db, session, config) ==
  LET db1 == updateSession(db, session.id,
                           [status |-> "active",
                            resumeCount |-> session.resumeCount + 1])
      db2 == recordEvent(db1, session.id, "resumed",
                         [resumeCount |-> session.resumeCount + 1])
  IN Outcome(db2, <<SessionHandle(session.id, "--resume",
                                  session.resumeCount)>>, "none")

\* resume writing back the resumeCount it read
resume_NoIncrement(db, session, config) ==
  LET db1 == updateSession(db, session.id,
                           [status |-> "active",
                            resumeCount |-> session.resumeCount])
      db2 == recordEvent(db1, session.id, "resumed",
                         [resumeCount |-> session.resumeCount + 1])
  IN Outcome(db2, <<SessionHandle(session.id, "--resume",
                                  session.resumeCount + 1)>>, "none")

resume(db, session, config) ==
  LET db1 == updateSession(db, session.id,
                           [status |-> "active",
                            resumeCount |-> session.resumeCount + 1])
      db2 == recordEvent(db1, session.id, "resumed",
                         [resumeCount |-> session.resumeCount + 1])
  IN Outcome(db2, <<SessionHandle(session.id, "--resume",
                                  session.resumeCount + 1)>>, "none")

\* startOrResume replacing every failed or aborted session, resumed or not
startOrResume_ReplaceResumed(db, config) ==
  LET sessionId == generateSessionId(config.issueNumber, config.persona,
                                     config.projectPath)
      existing == getSession(db, sessionId)
  IN IF hasSession(db, sessionId) /\ ~config.fork
     THEN IF existing.status = "active"
          THEN Outcome(db, <<>>, "SessionAlreadyRunningError")
          ELSE IF existing.status \in {"failed", "aborted"}
               THEN start(updateSession(db, sessionId, [status |-> "aborted"]),
                          sessionId, config, TRUE)
               ELSE resume(db, existing, config)
     ELSE start(db, sessionId, config, FALSE)

\* startOrResume without the check for an active session
startOrResume_NoActiveCheck(db, config) ==
  LET sessionId == generateSessionId(config.issueNumber, config.persona,
                                     config.projectPath)
      existing == getSession(db, sessionId)
  IN IF hasSession(db, sessionId) /\ ~config.fork
     THEN IF existing.status \in {"failed", "aborted"}
             /\ existing.resumeCount = 0
          THEN start(updateSession(db, sessionId, [status |-> "aborted"]),
                     sessionId, config, TRUE)
          ELSE resume(db, existing, config)
     ELSE start(db, sessionId, config, FALSE)

startOrResume(db, config) ==
  LET sessionId == generateSessionId(config.issueNumber, config.persona,
                                     config.projectPath)
      existing == getSession(db, sessionId)
  IN IF hasSession(db, sessionId) /\ ~config.fork
     THEN IF existing.status = "active"
          THEN Outcome(db, <<>>, "SessionAlreadyRunningError")
          ELSE IF existing.status \in {"failed", "aborted"}
                  /\ existing.resumeCount = 0
               THEN start(updateSession(db, sessionId, [status |-> "aborted"]),
                          sessionId, config, TRUE)
               ELSE resume(db, existing, config)
     ELSE start(db, sessionId, config, FALSE)

\* abortSession removing the row of the session
abortSession_Delete(db, sessionId) ==
  [db EXCEPT !.sessions =
     [i \in DOMAIN db.sessions \ {sessionId} |-> db.sessions[i]]]

\* abortSession clearing the resumeCount as well
abortSession_ResetCount(db, sessionId) ==
  IF hasSession(db, sessionId)
  THEN recordEvent(updateSession(db, sessionId,
                                 [status |-> "aborted", resumeCount |-> 0]),
                   sessionId, "failed", [reason |-> "aborted"])
  ELSE db

abortSession(db, sessionId) ==
  IF hasSession(db, sessionId)
  THEN recordEvent(updateSession(db, sessionId, [status |-> "aborted"]),
                   sessionId, "failed", [reason |-> "aborted"])
  ELSE db

\* markCompleted recording the event without the status update
markCompleted_EventOnly(db, sessionId) ==
  recordEvent(db, sessionId, "completed", [empty |-> TRUE])

markCompleted(db, sessionId) ==
  recordEvent(updateSession(db, sessionId,
                            [status |-> "completed", completedAt |-> TRUE]),
              sessionId, "completed", [empty |-> TRUE])

\* the exit handler with the status decided without looking at the code
onExit_AlwaysWaiting(db, sessionId, code) ==
  recordEvent(updateSession(db, sessionId, [status |-> "waiting"]),
              sessionId, IF code = 0 THEN "paused" ELSE "failed",
              [exitCode |-> code])

\* process.on('exit') of a handle
onExit(db, sessionId, code) ==
  LET newStatus == IF code = 0 THEN "waiting" ELSE "failed"
  IN recordEvent(updateSession(db, sessionId, [status |-> newStatus]),
                 sessionId, IF code = 0 THEN "paused" ELSE "failed",
                 [exitCode |-> code])

\* the error handler recording the failure as an exit does
onError_AsFailedExit(db, sessionId) ==
  recordEvent(updateSession(db, sessionId, [status |-> "failed"]),
              sessionId, "failed", [error |-> "spawn"])

\* process.on('error') of a handle
onError(db, sessionId) ==
  recordEvent(updateSession(db, sessionId, [status |-> "failed"]),
              sessionId, "crashed", [error |-> "spawn"])

\* -------------------------------------------------------- GitHubMonitor
OtherIssue == 999

\* what `gh project item-list` returns: items in board order, each with the
\* number of its issue and its Status field ("" when the field is not set)
RawStatuses == (Statuses \ {"Unknown"}) \cup {""}

RECURSIVE ItemLists(_)
ItemLists(numbers) ==
  {<<>>} \cup
  UNION { { <<[number |-> n, status |-> st]>> \o rest :
              st \in RawStatuses, rest \in ItemLists(numbers \ {n}) }
          : n \in numbers }

BoardItems(issueNumbers) ==
  ItemLists(issueNumbers) \cup
  { <<[number |-> OtherIssue, status |-> "Ready"]>> \o l : l \in ItemLists(issueNumbers) }

\* the Map built from the items, in insertion order, as <<number, status>> pairs
RECURSIVE getProjectItemStatuses(_, _)
getProjectItemStatuses(issueNumbers, items) ==
  IF items = <<>> THEN <<>>
  ELSE LET item == Head(items)
           rest == getProjectItemStatuses(issueNumbers, Tail(items))
       IN IF item.number \in issueNumbers
          THEN <<<<item.number, IF item.status = "" THEN "Unknown" ELSE item.status>>>> \o rest
          ELSE rest

\* shouldResume looking at the role's feedback status only
shouldResume_FeedbackOnly(session, newStatus) ==
  newStatus = loadConfig(session.projectPath).personas[session.persona].feedbackStatus

shouldResume(session, newStatus) ==
  LET personaConfig == loadConfig(session.projectPath).personas[session.persona]
  IN \/ newStatus = personaConfig.feedbackStatus
     \/ newStatus \in Range(session.waitingForStatuses)

\* triggerResume that emits resumeTriggered and resumes nothing
triggerResume_EmitOnly(db, session, triggerIssue, newStatus) ==
  Outcome(db, <<>>, "none")

\* emits resumeTriggered, then startOrResume with fork unset; an error the call
\* throws is logged and swallowed
triggerResume(db, session, triggerIssue, newStatus) ==
  LET r == startOrResume(db, [issueNumber |-> session.issueNumber,
                              persona |-> session.persona,
                              projectPath |-> session.projectPath,
                              fork |-> FALSE])
  IN Outcome(r.db, r.spawned, "none")

checkAllComplete(session, statuses) ==
  LET targetStatuses ==
        loadConfig(session.projectPath).personas[session.persona].targetStatuses
  IN \A i \in 1..Len(statuses) : statuses[i][2] \in Range(targetStatuses)

\* the loop without the return that follows triggerResume
RECURSIVE checkIssues_NoReturn(_, _, _, _, _)
checkIssues_NoReturn(db, session, statuses, i, out) ==
  IF i > Len(statuses)
  THEN [db |-> db, spawned |-> <<>>, emitted |-> out, resumed |-> FALSE]
  ELSE LET issueNumber == statuses[i][1]
           newStatus == statuses[i][2]
           previous == getIssueStatus(db, issueNumber, session.id)
           db1 == updateIssueStatus(
                    recordTransition(db, issueNumber, previous, newStatus),
                    issueNumber, session.id, newStatus)
           out1 == Append(out, [type |-> "statusChange",
                                issueNumber |-> issueNumber,
                                fromStatus |-> previous, toStatus |-> newStatus])
       IN IF previous # newStatus
          THEN IF shouldResume(session, newStatus)
               THEN LET r == triggerResume(db1, session, issueNumber, newStatus)
                        rest == checkIssues_NoReturn(r.db, session, statuses, i + 1,
                                  Append(out1, [type |-> "resumeTriggered",
                                                sessionId |-> session.id,
                                                triggerIssue |-> issueNumber,
                                                newStatus |-> newStatus]))
                    IN [rest EXCEPT !.spawned = r.spawned \o @, !.resumed = TRUE]
               ELSE checkIssues_NoReturn(db1, session, statuses, i + 1, out1)
          ELSE checkIssues_NoReturn(db, session, statuses, i + 1, out)

\* the loop of checkSession over the fetched statuses, from entry i on
RECURSIVE checkIssues(_, _, _, _, _)
checkIssues(db, session, statuses, i, out) ==
  IF i > Len(statuses)
  THEN [db |-> db, spawned |-> <<>>, emitted |-> out, resumed |-> FALSE]
  ELSE LET issueNumber == statuses[i][1]
           newStatus == statuses[i][2]
           previous == getIssueStatus(db, issueNumber, session.id)
           db1 == updateIssueStatus(
                    recordTransition(db, issueNumber, previous, newStatus),
                    issueNumber, session.id, newStatus)
           out1 == Append(out, [type |-> "statusChange",
                                issueNumber |-> issueNumber,
                                fromStatus |-> previous, toStatus |-> newStatus])
       IN IF previous # newStatus
          THEN IF shouldResume(session, newStatus)
               THEN LET r == triggerResume(db1, session, issueNumber, newStatus)
                    IN [db |-> r.db, spawned |-> r.spawned,
                        emitted |-> Append(out1, [type |-> "resumeTriggered",
                                                  sessionId |-> session.id,
                                                  triggerIssue |-> issueNumber,
                                                  newStatus |-> newStatus]),
                        resumed |-> TRUE]
               ELSE checkIssues(db1, session, statuses, i + 1, out1)
          ELSE checkIssues(db, session, statuses, i + 1, out)

\* checkSession from the point where the fetch has returned
checkSession(db, session, statuses) ==
  LET r == checkIssues(db, session, statuses, 1, <<>>)
  IN IF r.resumed THEN r
     ELSE IF checkAllComplete(session, statuses)
          THEN [r EXCEPT !.db = markCompleted(r.db, session.id)]
          ELSE r

\* this.timer = setTimeout(...): a timer still armed is no longer referenced
armTimer(mon) ==
  [mon EXCEPT !.timer = "armed",
              !.leaked = IF mon.timer = "armed" THEN @ + 1 ELSE @]

\* ------------------------------------------------------------ EventLoop
\* the status attached to a node of the graph when it is built: undefined, the
\* issue being put on the project board only later
GraphStatuses == {Undefined}

RECURSIVE trackIssues(_, _, _, _, _)
trackIssues(db, sessionId, graph, nodeStatus, persona) ==
  IF graph = <<>> THEN db
  ELSE LET targetStatuses == DEFAULT_CONFIG.personas[persona].targetStatuses
           db1 == upsertIssueGraph(db,
                    [issueNumber |-> Head(graph), sessionId |-> sessionId,
                     currentStatus |-> nodeStatus[Head(graph)],
                     targetStatus |-> targetStatuses[Len(targetStatuses)]])
       IN trackIssues(db1, sessionId, Tail(graph), nodeStatus, persona)

\* EventLoop.run from startOrResume up to the wait for the first exit
run(db, config, graph, nodeStatus, noMonitor) ==
  LET r == startOrResume(db, config)
      sessionId == ConfigId(config)
      db1 == trackIssues(r.db, sessionId, graph, nodeStatus, config.persona)
      db2 == IF noMonitor THEN db1
             ELSE updateSession(db1, sessionId,
                    [waitingForStatuses |->
                       DEFAULT_CONFIG.personas[config.persona].targetStatuses])
  IN IF r.error # "none" THEN r ELSE Outcome(db2, r.spawned, "none")

\* ---------------------------------------------------------------- Watcher
\* the issues of the project, and the processes spawned in a run of the model
MaxIssues == 4
MaxSpawns == 5
IssueNumbers == 1..MaxIssues

\* createWatcher's default for options.maxConcurrent
maxConcurrent == 3

\* the triggers by status, with the status the issue is moved to
STATUS_TRIGGERS ==
  [draft |-> [command |-> "/refinement:refine-issue", nextStatus |-> "refining"],
   ready |-> [command |-> "/refinement:export-to-github", nextStatus |-> "exported"]]

hasTrigger(status) == status \in DOMAIN STATUS_TRIGGERS

getTrigger(status) == STATUS_TRIGGERS[status]

\* IssueState.activeProcess when it is not set
NoProcess == 0

\* process.kill(pid, 0) succeeds
isProcessRunning(w, pid) == pid \in w.alive

hasStatusChanged(state, issueId, currentStatus) ==
  IF issueId \notin DOMAIN state THEN TRUE
  ELSE state[issueId].lastStatus # currentStatus

hasActiveProcess(state, issueId) ==
  issueId \in DOMAIN state /\ state[issueId].activeProcess # NoProcess

getActiveProcesses(state) ==
  { issueId \in DOMAIN state : state[issueId].activeProcess # NoProcess }

clearActiveProcess(state, issueId) ==
  IF issueId \in DOMAIN state
  THEN [state EXCEPT ![issueId].activeProcess = NoProcess]
  ELSE state

setIssueState(state, issueId, status, pid) ==
  [x \in DOMAIN state \cup {issueId} |->
     IF x = issueId THEN [lastStatus |-> status, activeProcess |-> pid]
     ELSE state[x]]

cleanupFinishedProcesses(w) ==
  [w EXCEPT !.state =
     [x \in DOMAIN w.state |->
        IF w.state[x].activeProcess # NoProcess
           /\ ~isProcessRunning(w, w.state[x].activeProcess)
        THEN [w.state[x] EXCEPT !.activeProcess = NoProcess]
        ELSE w.state[x]]]

\* spawnClaude and what processIssue does with its result: the process runs,
\* its pid is recorded with the status, the issue moves to the next status
spawnClaude(w, issueId, status) ==
  LET pid == Len(w.owner) + 1
  IN [w EXCEPT !.alive = @ \cup {pid},
               !.owner = Append(@, issueId),
               !.state = setIssueState(@, issueId, status, pid),
               !.issues[issueId] = getTrigger(status).nextStatus]

processIssue(w, issueId) ==
  LET status == w.issues[issueId]
  IN IF ~hasTrigger(status) THEN w
     ELSE IF ~hasStatusChanged(w.state, issueId, status) THEN w
     ELSE IF hasActiveProcess(w.state, issueId)
             /\ isProcessRunning(w, w.state[issueId].activeProcess)
          THEN w
          ELSE spawnClaude([w EXCEPT !.state = clearActiveProcess(@, issueId)],
                           issueId, status)

\* the loop of Watcher.checkIssues over the issues from number n on, with the count
\* of active processes taken before the loop
RECURSIVE checkEach(_, _, _)
checkEach(w, n, activeCount) ==
  IF n > MaxIssues \/ activeCount >= maxConcurrent THEN w
  ELSE checkEach(IF n \in DOMAIN w.issues THEN processIssue(w, n) ELSE w,
                 n + 1, activeCount)

\* Watcher.checkIssues
watcherCheckIssues(w) ==
  LET w1 == cleanupFinishedProcesses(w)
      activeCount == Cardinality(getActiveProcesses(w1.state))
  IN checkEach(w1, 1, activeCount)

\* ------------------------------------------------------------------ state
VARIABLES
  db,        \* the StateStore tables
  handles,   \* every SessionHandle created so far, with its process's state
  monitor,   \* GitHubMonitor.running, .timer and the timers it lost track of
  polls,     \* the executions of poll() suspended in a status fetch, each
             \* with the sessions still to visit and whether it has written
             \* to the store so far
  emitted,   \* what the monitor emitted in the latest step
  fetched,   \* the session and the status map checkSession handled in the
             \* latest step: <<>>, or one record
  thrown,    \* the error the latest step threw to its caller, or "none"
  command,   \* the command that built the monitor: "run" or "watch"
  calls,     \* per process sharing the store: where its monitor's handling of
             \* a session stands, one store call at a time
  runner,    \* where EventLoop.run stands: its position, the handle it waits
             \* for and the session status it read before returning
  node,      \* the coordinating process: the handles whose store it has
             \* closed, the handles with an 'error' listener, the handles it
             \* has sent a signal, and the exception nothing caught
  watcher    \* the status-trigger watcher: the issues of the store with their
             \* statuses, the StateTracker's entries, the processes that
             \* run, and for every process spawned the issue it was for

vars ==
  <<db, handles, monitor, polls, emitted, fetched, thrown, command, calls,
    runner, node, watcher>>

\* the processes that open the same store file: the orchestrator (`run`) and
\* the watch daemon (`watch`), each with a GitHubMonitor of its own
Procs == {"run", "watch"}

\* a process outside checkSession; workers are the handles it has spawned
Idle(workers) ==
  [pc |-> "idle", session |-> <<>>, statuses |-> <<>>, i |-> 0,
   previous |-> Undefined, existing |-> <<>>, workers |-> workers]

\* watchStatus registers an 'error' listener on its monitor, EventLoop does not
errorListener == command = "watch"

\* EventLoop.run has not been called
NotRunning == [pc |-> "idle", handle |-> 0, observed |-> Undefined]

Init ==
  /\ db = EmptyDb
  /\ handles = <<>>
  /\ monitor = [running |-> FALSE, timer |-> "none", leaked |-> 0]
  /\ polls = <<>>
  /\ emitted = <<>>
  /\ fetched = <<>>
  /\ thrown = "none"
  /\ command \in {"run", "watch"}
  /\ calls = [p \in Procs |-> Idle({})]
  /\ runner = NotRunning
  /\ node = [closed |-> {}, listening |-> {}, killed |-> {}, uncaught |-> "none"]
  /\ watcher = [issues |-> <<>>, state |-> <<>>, alive |-> {}, owner |-> <<>>]

WithinBounds(d, h) ==
  /\ Len(d.session_events) <= MaxEvents
  /\ Len(d.status_transitions) <= MaxTransitions
  /\ Len(h) <= MaxWorkers

RemoveAt(seq, i) == SubSeq(seq, 1, i - 1) \o SubSeq(seq, i + 1, Len(seq))

\* ---------------------------------------------------- session operations
StartOrResume(c, fork) ==
  LET r == startOrResume(db, [issueNumber |-> c.issueNumber,
                              persona |-> c.persona,
                              projectPath |-> c.projectPath, fork |-> fork])
  IN /\ WithinBounds(r.db, handles \o r.spawned)
     /\ db' = r.db
     /\ handles' = handles \o r.spawned
     /\ thrown' = r.error
     /\ emitted' = <<>>
     /\ fetched' = <<>>
     /\ UNCHANGED <<monitor, polls, command, calls, runner, node, watcher>>

RunWorkflow(c, fork, graph, nodeStatus, noMonitor) ==
  LET r == run(db, [issueNumber |-> c.issueNumber, persona |-> c.persona,
                    projectPath |-> c.projectPath, fork |-> fork],
               graph, nodeStatus, noMonitor)
  IN /\ WithinBounds(r.db, handles \o r.spawned)
     /\ db' = r.db
     /\ handles' = handles \o r.spawned
     /\ thrown' = r.error
     /\ emitted' = <<>>
     /\ fetched' = <<>>
     /\ UNCHANGED <<monitor, polls, command, calls, runner, node, watcher>>

AbortSession(id) ==
  /\ WithinBounds(abortSession(db, id), handles)
  /\ db' = abortSession(db, id)
  /\ thrown' = "none"
  /\ emitted' = <<>>
  /\ fetched' = <<>>
  /\ UNCHANGED <<handles, monitor, polls, command, calls, runner, node, watcher>>

MarkCompleted(id) ==
  /\ hasSession(db, id)
  /\ WithinBounds(markCompleted(db, id), handles)
  /\ db' = markCompleted(db, id)
  /\ thrown' = "none"
  /\ emitted' = <<>>
  /\ fetched' = <<>>
  /\ UNCHANGED <<handles, monitor, polls, command, calls, runner, node, watcher>>

\* the process of handle i exits with the code
Exit(i, code) ==
  /\ handles[i].state = "running"
  /\ i \notin node.closed
  /\ WithinBounds(onExit(db, handles[i].sessionId, code), handles)
  /\ db' = onExit(db, handles[i].sessionId, code)
  /\ handles' = [handles EXCEPT
       ![i] = settle([@ EXCEPT !.state = "exited",
                               !.emits = Append(@, [signal |-> "exit",
                                                    code |-> code])],
                     [state |-> "resolved", code |-> code])]
  /\ thrown' = "none"
  /\ emitted' = <<>>
  /\ fetched' = <<>>
  /\ UNCHANGED <<monitor, polls, command, calls, runner, node, watcher>>

\* the process of handle i could not be spawned
ProcessError(i) ==
  /\ handles[i].state = "running"
  /\ WithinBounds(onError(db, handles[i].sessionId), handles)
  /\ db' = onError(db, handles[i].sessionId)
  /\ handles' = [handles EXCEPT
       ![i] = settle([@ EXCEPT !.state = "errored",
                               !.emits = Append(@, [signal |-> "processError"])],
                     [state |-> "rejected"])]
  /\ thrown' = "none"
  /\ emitted' = <<>>
  /\ fetched' = <<>>
  /\ UNCHANGED <<monitor, polls, command, calls, runner, node, watcher>>

\* -------------------------------------------------------- monitor steps
Threads(mon, ps) ==
  Len(ps) + mon.leaked + (IF mon.timer = "armed" THEN 1 ELSE 0)

\* checkSessions' loop from the sessions still to visit: it runs up to the
\* fetch of the next session that has tracked issues (sessions without any
\* are passed over), or to its end, after which poll() arms the timer
Continue(d, mon, others, todo, wrote) ==
  LET tracked(t) == getTrackedIssues(d, t.id)
  IN \/ \E s \in { t \in todo : tracked(t) # {} } :
          \E skipped \in SUBSET { t \in todo : tracked(t) = {} } :
             /\ polls' = Append(others,
                           [session |-> s, issueNumbers |-> tracked(s),
                            todo |-> todo \ ({s} \cup skipped),
                            wrote |-> wrote])
             /\ monitor' = mon
     \/ /\ \A t \in todo : tracked(t) = {}
        /\ polls' = others
        /\ monitor' = armTimer(mon)

\* poll() without the check of this.running
Poll_NoRunningCheck(mon) ==
  Continue(db, mon, polls, getSessionsByStatus(db, {"waiting"}), FALSE)

\* poll() up to its first suspension
Poll(mon) ==
  IF ~mon.running
  THEN monitor' = mon /\ polls' = polls
  ELSE Continue(db, mon, polls, getSessionsByStatus(db, {"waiting"}), FALSE)

MonitorStart ==
  /\ Threads(monitor, polls) < MaxPolls
  /\ IF monitor.running
     THEN UNCHANGED <<monitor, polls>>
     ELSE Poll([monitor EXCEPT !.running = TRUE])
  /\ emitted' = <<>>
  /\ fetched' = <<>>
  /\ thrown' = "none"
  /\ UNCHANGED <<db, handles, command, calls, runner, node, watcher>>

MonitorStop ==
  /\ monitor' = [monitor EXCEPT !.running = FALSE, !.timer = "none"]
  /\ emitted' = <<>>
  /\ fetched' = <<>>
  /\ thrown' = "none"
  /\ UNCHANGED <<db, handles, polls, command, calls, runner, node, watcher>>

\* the timer this.timer refers to fires
TimerFire ==
  /\ monitor.timer = "armed"
  /\ Poll([monitor EXCEPT !.timer = "fired"])
  /\ emitted' = <<>>
  /\ fetched' = <<>>
  /\ thrown' = "none"
  /\ UNCHANGED <<db, handles, command, calls, runner, node, watcher>>

\* a timer that this.timer no longer refers to fires
LeakedTimerFire ==
  /\ monitor.leaked > 0
  /\ Poll([monitor EXCEPT !.leaked = @ - 1])
  /\ emitted' = <<>>
  /\ fetched' = <<>>
  /\ thrown' = "none"
  /\ UNCHANGED <<db, handles, command, calls, runner, node, watcher>>

\* the fetch of suspended poll i returns the items of the board
FetchDone(i, items) ==
  LET p == polls[i]
      statuses == getProjectItemStatuses(p.issueNumbers, items)
      r == checkSession(db, p.session, statuses)
  IN /\ WithinBounds(r.db, handles \o r.spawned)
     /\ db' = r.db
     /\ handles' = handles \o r.spawned
     /\ emitted' = r.emitted
     /\ fetched' = <<[session |-> p.session, statuses |-> statuses]>>
     /\ Continue(r.db, monitor, RemoveAt(polls, i), p.todo,
                 p.wrote \/ r.db # db)
     /\ thrown' = "none"
     /\ UNCHANGED <<command, calls, runner, node, watcher>>

\* the fetch of suspended poll i throws: poll() catches the error and emits
\* 'error'; with no listener for it emit throws the error itself, out of poll()
FetchFail(i) ==
  /\ polls' = RemoveAt(polls, i)
  /\ IF errorListener
     THEN /\ emitted' = <<[type |-> "error"]>>
          /\ fetched' = <<>>
          /\ thrown' = "none"
          /\ monitor' = armTimer(monitor)
     ELSE /\ emitted' = <<>>
          /\ fetched' = <<>>
          /\ thrown' = "GitHubCliError"
          /\ monitor' = monitor
  /\ UNCHANGED <<db, handles, command, calls, runner, node, watcher>>

\* a caller of handle i calls waitForCompletion
WaitForCompletion(i) ==
  /\ Len(handles[i].promises) < MaxWaits
  /\ handles' = [handles EXCEPT ![i] = waitForCompletion(@)]
  /\ thrown' = "none"
  /\ emitted' = <<>>
  /\ fetched' = <<>>
  /\ UNCHANGED <<db, monitor, polls, command, calls, runner, node, watcher>>

\* the worker of handle i writes a character to its standard output
Write(i, ch) ==
  /\ handles[i].state = "running"
  /\ Len(handles[i].written) + Len(encode(ch)) <= MaxOutput
  /\ handles' = [handles EXCEPT ![i].written = @ \o encode(ch),
                                ![i].stdout = @ \o encode(ch)]
  /\ thrown' = "none"
  /\ emitted' = <<>>
  /\ fetched' = <<>>
  /\ UNCHANGED <<db, monitor, polls, command, calls, runner, node, watcher>>

\* the stream of handle i delivers the next n bytes as one 'data' event
Data(i, n) ==
  /\ n \in 1..Len(handles[i].stdout)
  /\ handles' = [handles EXCEPT
       ![i] = onData([@ EXCEPT !.stdout = SubSeq(@, n + 1, Len(@))],
                     SubSeq(handles[i].stdout, 1, n))]
  /\ thrown' = "none"
  /\ emitted' = <<>>
  /\ fetched' = <<>>
  /\ UNCHANGED <<db, monitor, polls, command, calls, runner, node, watcher>>

\* the first worker is spawned
Spawn ==
  /\ handles = <<>>
  /\ \E c \in Monitored : StartOrResume(c, FALSE)

\* the SessionManager's operations and the workers' exits, in any order
NextManager ==
  \/ \E c \in Configs, fork \in BOOLEAN : StartOrResume(c, fork)
  \/ \E id \in Ids : AbortSession(id)
  \/ \E id \in Ids : MarkCompleted(id)
  \/ \E i \in DOMAIN handles, code \in ExitCodes : Exit(i, code)
  \/ \E i \in DOMAIN handles : ProcessError(i)

SpecManager == Init /\ [][NextManager]_vars

\* runs of the orchestrator, aborts, the workers' exits and the monitor's
\* polling loop once started (never stopped, so one poll at a time)
NextMonitor ==
  \/ \E c \in Monitored : AbortSession(ConfigId(c))
  \/ \E c \in Monitored, noMonitor \in BOOLEAN :
       \E graph \in Graphs(c.issueNumber) :
         \E nodeStatus \in [Range(graph) -> GraphStatuses] :
           RunWorkflow(c, FALSE, graph, nodeStatus, noMonitor)
  \/ \E i \in DOMAIN handles, code \in ExitCodes : Exit(i, code)
  \/ MonitorStart
  \/ TimerFire
  \/ \E i \in DOMAIN polls : \E items \in BoardItems(polls[i].issueNumbers) :
       FetchDone(i, items)
  \/ \E i \in DOMAIN polls : FetchFail(i)

SpecMonitor == Init /\ [][NextMonitor]_vars

\* the monitor started and stopped at any time, over one orchestrated session
\* whose workers exit normally
NextTimer ==
  \/ \E c \in Monitored :
       RunWorkflow(c, FALSE, <<c.issueNumber>>,
                   [n \in {c.issueNumber} |-> Undefined], FALSE)
  \/ \E i \in DOMAIN handles : Exit(i, 0)
  \/ MonitorStart
  \/ MonitorStop
  \/ TimerFire
  \/ LeakedTimerFire
  \/ \E i \in DOMAIN polls : \E items \in BoardItems(polls[i].issueNumbers) :
       FetchDone(i, items)
  \/ \E i \in DOMAIN polls : FetchFail(i)

SpecTimer == Init /\ [][NextTimer]_vars

\* the handles of one session: spawned, waited for at any time, ending by an
\* exit or by a spawn-level error
NextHandle ==
  \/ \E c \in Monitored : StartOrResume(c, FALSE)
  \/ \E i \in DOMAIN handles : WaitForCompletion(i)
  \/ \E i \in DOMAIN handles, code \in ExitCodes : Exit(i, code)
  \/ \E i \in DOMAIN handles : ProcessError(i)

SpecHandle == Init /\ [][NextHandle]_vars

\* one worker writing its output, delivered to the handle in chunks of any size
NextOutput ==
  \/ Spawn
  \/ \E i \in DOMAIN handles, ch \in Chars : Write(i, ch)
  \/ \E i \in DOMAIN handles, n \in 1..MaxOutput : Data(i, n)
  \/ \E i \in DOMAIN handles, code \in ExitCodes : Exit(i, code)

SpecOutput == Init /\ [][NextOutput]_vars

\* ------------------------------------------- processes sharing the store
\* what `gh project item-list` returns while the processes below run: item 200
\* has been moved to the feedback status, the one status change they can see
Board == <<[number |-> 200, status |-> "Developer Review"]>>

\* the process whose event loop runs the handlers of handle i: the one that
\* spawned it (the orchestrator spawned the handles no monitor did)
Owner(i) ==
  IF \E p \in Procs : i \in calls[p].workers
  THEN CHOOSE p \in Procs : i \in calls[p].workers
  ELSE "run"

\* the orchestrator runs once for a session that does not exist yet
Orchestrate ==
  /\ \A c \in Monitored : ~hasSession(db, ConfigId(c))
  /\ \E c \in Monitored :
       RunWorkflow(c, FALSE, <<c.issueNumber>>,
                   [n \in {c.issueNumber} |-> Undefined], FALSE)

\* a worker exits; its handler runs in the process that spawned it, between
\* two of that process's own handlers
OwnerExit(i, code) ==
  /\ calls[Owner(i)].pc = "idle"
  /\ Exit(i, code)

\* the monitor of process p polls: it reads the waiting sessions and the issues
\* tracked for one of them, and fetches their statuses
TickBegin(p) ==
  /\ calls[p].pc = "idle"
  /\ \E s \in getSessionsByStatus(db, {"waiting"}) :
       /\ getTrackedIssues(db, s.id) # {}
       /\ LET statuses == getProjectItemStatuses(getTrackedIssues(db, s.id), Board)
          IN calls' = [calls EXCEPT ![p] =
               [@ EXCEPT !.pc = IF statuses = <<>> THEN "checkAllComplete"
                                ELSE "getIssueStatus",
                         !.session = s, !.statuses = statuses, !.i = 1]]
  /\ emitted' = <<>>
  /\ fetched' = <<>>
  /\ thrown' = "none"
  /\ UNCHANGED <<db, handles, monitor, polls, command, runner, node, watcher>>

\* process p makes the next store call (or spawn) of checkSession,
\* triggerResume and startOrResume; calls of the other process may come
\* between any two of them
ProcStep(p) ==
  LET c == calls[p]
      s == c.session
      issueNumber == c.statuses[c.i][1]
      newStatus == c.statuses[c.i][2]
      goto(pc) == [c EXCEPT !.pc = pc]
      next == IF c.i < Len(c.statuses)
              THEN [c EXCEPT !.pc = "getIssueStatus", !.i = @ + 1]
              ELSE goto("checkAllComplete")
      done == Idle(c.workers)
      out(d, spawned, em, c1) ==
        [db |-> d, spawned |-> spawned, emitted |-> em, c |-> c1]
      statusChange == [type |-> "statusChange", issueNumber |-> issueNumber,
                       fromStatus |-> c.previous, toStatus |-> newStatus]
      resumeTriggered == [type |-> "resumeTriggered", sessionId |-> s.id,
                          triggerIssue |-> issueNumber, newStatus |-> newStatus]
      r == CASE c.pc = "getIssueStatus" ->
                  LET previous == getIssueStatus(db, issueNumber, s.id)
                  IN IF previous # newStatus
                     THEN out(db, <<>>, <<>>,
                              [c EXCEPT !.pc = "recordTransition",
                                        !.previous = previous])
                     ELSE out(db, <<>>, <<>>, next)
             [] c.pc = "recordTransition" ->
                  out(recordTransition(db, issueNumber, c.previous, newStatus),
                      <<>>, <<>>, goto("updateIssueStatus"))
             [] c.pc = "updateIssueStatus" ->
                  IF shouldResume(s, newStatus)
                  THEN out(updateIssueStatus(db, issueNumber, s.id, newStatus),
                           <<>>, <<statusChange, resumeTriggered>>,
                           goto("getSession"))
                  ELSE out(updateIssueStatus(db, issueNumber, s.id, newStatus),
                           <<>>, <<statusChange>>, next)
             [] c.pc = "getSession" ->
                  IF ~hasSession(db, s.id)
                  THEN out(db, <<>>, <<>>, goto("createSession"))
                  ELSE LET existing == getSession(db, s.id)
                       IN IF existing.status = "active"
                          THEN out(db, <<>>, <<>>, done)
                          ELSE IF existing.status \in {"failed", "aborted"}
                                  /\ existing.resumeCount = 0
                               THEN out(db, <<>>, <<>>,
                                        [c EXCEPT !.pc = "updateSessionAborted",
                                                  !.existing = existing])
                               ELSE out(db, <<>>, <<>>,
                                        [c EXCEPT !.pc = "updateSessionResume",
                                                  !.existing = existing])
             [] c.pc = "createSession" ->
                  IF createSessionFails(db, [id |-> s.id])
                  THEN out(db, <<>>, <<>>, done)
                  ELSE out(createSession(db, [id |-> s.id,
                                              issueNumber |-> s.issueNumber,
                                              persona |-> s.persona,
                                              projectPath |-> s.projectPath]),
                           <<>>, <<>>, goto("recordEventStarted"))
             [] c.pc = "updateSessionAborted" ->
                  out(updateSession(db, s.id, [status |-> "aborted"]),
                      <<>>, <<>>, goto("updateSessionReplace"))
             [] c.pc = "updateSessionReplace" ->
                  out(updateSession(db, s.id,
                                    [status |-> "active", resumeCount |-> 0]),
                      <<>>, <<>>, goto("recordEventStarted"))
             [] c.pc = "recordEventStarted" ->
                  out(recordEvent(db, s.id, "started",
                                  [issueNumber |-> s.issueNumber,
                                   persona |-> s.persona]),
                      <<>>, <<>>, goto("spawnStart"))
             [] c.pc = "spawnStart" ->
                  out(db, <<SessionHandle(s.id, "--session-id", 0)>>, <<>>, done)
             [] c.pc = "updateSessionResume" ->
                  out(updateSession(db, s.id,
                                    [status |-> "active",
                                     resumeCount |-> c.existing.resumeCount + 1]),
                      <<>>, <<>>, goto("recordEventResumed"))
             [] c.pc = "recordEventResumed" ->
                  out(recordEvent(db, s.id, "resumed",
                                  [resumeCount |-> c.existing.resumeCount + 1]),
                      <<>>, <<>>, goto("spawnResume"))
             [] c.pc = "spawnResume" ->
                  out(db, <<SessionHandle(s.id, "--resume",
                                          c.existing.resumeCount + 1)>>,
                      <<>>, done)
             [] c.pc = "checkAllComplete" ->
                  IF checkAllComplete(s, c.statuses)
                  THEN out(db, <<>>, <<>>, goto("updateSessionCompleted"))
                  ELSE out(db, <<>>, <<>>, done)
             [] c.pc = "updateSessionCompleted" ->
                  out(updateSession(db, s.id, [status |-> "completed",
                                               completedAt |-> TRUE]),
                      <<>>, <<>>, goto("recordEventCompleted"))
             [] c.pc = "recordEventCompleted" ->
                  out(recordEvent(db, s.id, "completed", [empty |-> TRUE]),
                      <<>>, <<>>, done)
  IN /\ c.pc # "idle"
     /\ WithinBounds(r.db, handles \o r.spawned)
     /\ db' = r.db
     /\ handles' = handles \o r.spawned
     /\ calls' = [calls EXCEPT ![p] =
          [r.c EXCEPT !.workers =
             @ \cup ((Len(handles) + 1) .. (Len(handles) + Len(r.spawned)))]]
     /\ emitted' = r.emitted
     /\ fetched' = <<>>
     /\ thrown' = "none"
     /\ UNCHANGED <<monitor, polls, command, runner, node, watcher>>

\* one orchestrated session, its workers' exits, and the monitors of two
\* processes handling it over the same store
NextShared ==
  \/ Orchestrate
  \/ \E i \in DOMAIN handles, code \in ExitCodes : OwnerExit(i, code)
  \/ \E p \in Procs : TickBegin(p)
  \/ \E p \in Procs : ProcStep(p)

SpecShared == Init /\ [][NextShared]_vars

\* ------------------------------------------- EventLoop.run, monitored
TerminalStatuses == {"completed", "failed", "aborted"}

\* run without --no-monitor, up to `await handle.waitForCompletion()`: a
\* failure of startOrResume is thrown to the caller
RunMonitored(c, graph, nodeStatus) ==
  LET r == run(db, [issueNumber |-> c.issueNumber, persona |-> c.persona,
                    projectPath |-> c.projectPath, fork |-> FALSE],
               graph, nodeStatus, FALSE)
  IN /\ runner.pc = "idle"
     /\ command = "run"
     /\ WithinBounds(r.db, handles \o r.spawned)
     /\ db' = r.db
     /\ IF r.error = "none"
        THEN /\ handles' = handles \o <<waitForCompletion(r.spawned[1])>>
             /\ runner' = [runner EXCEPT !.pc = "waitForCompletion",
                                         !.handle = Len(handles) + 1]
        ELSE /\ handles' = handles
             /\ runner' = [runner EXCEPT !.pc = "rejected"]
     /\ thrown' = r.error
     /\ emitted' = <<>>
     /\ fetched' = <<>>
     /\ UNCHANGED <<monitor, polls, command, calls, node, watcher>>

\* the promise of waitForCompletion has settled: resolved, the run goes on to
\* `await this.monitor.start()`; rejected, the error leaves run
AfterWaitForCompletion ==
  /\ runner.pc = "waitForCompletion"
  /\ handles[runner.handle].promises[1].state # "pending"
  /\ IF handles[runner.handle].promises[1].state = "resolved"
     THEN /\ Poll([monitor EXCEPT !.running = TRUE])
          /\ runner' = [runner EXCEPT !.pc = "start"]
          /\ thrown' = "none"
     ELSE /\ UNCHANGED <<monitor, polls>>
          /\ runner' = [runner EXCEPT !.pc = "rejected"]
          /\ thrown' = "ProcessError"
  /\ emitted' = <<>>
  /\ fetched' = <<>>
  /\ UNCHANGED <<db, handles, command, calls, node, watcher>>

\* start() awaits the first poll(), which ends by arming the timer, or by
\* throwing the error of its fetch when 'error' has no listener: then no timer
\* is armed and no poll is left suspended
startReturned == runner.pc = "start" /\ monitor.timer # "none"

startThrew ==
  runner.pc = "start" /\ monitor.timer = "none" /\ polls = <<>>

\* the error of the first poll leaves start(), monitorUntilComplete and run
AfterStartThrew ==
  /\ startThrew
  /\ runner' = [runner EXCEPT !.pc = "rejected"]
  /\ thrown' = "GitHubCliError"
  /\ emitted' = <<>>
  /\ fetched' = <<>>
  /\ UNCHANGED <<db, handles, monitor, polls, command, calls, node, watcher>>

\* one pass of the loop of monitorUntilComplete, entered when start() returns
\* and again after each sleep: a missing row or a terminal status breaks out
\* to monitor.stop() and the return
CheckSession ==
  LET id == handles[runner.handle].sessionId
      session == getSession(db, id)
      ended == ~hasSession(db, id) \/ session.status \in TerminalStatuses
  IN /\ startReturned \/ runner.pc = "sleep"
     /\ ended \/ runner.pc = "start"
     /\ IF ended
        THEN /\ runner' = [runner EXCEPT
                  !.pc = "returned",
                  !.observed = IF hasSession(db, id) THEN session.status
                               ELSE Undefined]
             /\ monitor' = [monitor EXCEPT !.running = FALSE, !.timer = "none"]
        ELSE /\ runner' = [runner EXCEPT !.pc = "sleep"]
             /\ monitor' = monitor
     /\ thrown' = "none"
     /\ emitted' = <<>>
     /\ fetched' = <<>>
     /\ UNCHANGED <<db, handles, polls, command, calls, node, watcher>>

\* a monitored run of the orchestrator, its worker, the ticks of its monitor
\* and an abort asked for from outside
NextRun ==
  \/ \E c \in Monitored :
       \E graph \in Graphs(c.issueNumber) :
         \E nodeStatus \in [Range(graph) -> GraphStatuses] :
           RunMonitored(c, graph, nodeStatus)
  \/ AfterWaitForCompletion
  \/ AfterStartThrew
  \/ CheckSession
  \/ \E c \in Monitored : AbortSession(ConfigId(c))
  \/ \E i \in DOMAIN handles, code \in ExitCodes : Exit(i, code)
  \/ \E i \in DOMAIN handles : ProcessError(i)
  \/ TimerFire
  \/ \E i \in DOMAIN polls :
       \E items \in BoardItems(polls[i].issueNumbers) : FetchDone(i, items)
  \/ \E i \in DOMAIN polls : FetchFail(i)

SpecRun == Init /\ [][NextRun]_vars

\* ---------------------------------------------------- session identities
\* sessions started and resumed for requests over several projects, roles
\* and issues, their workers pausing in between
NextIds ==
  \/ \E c \in Requests : StartOrResume(c, FALSE)
  \/ \E i \in DOMAIN handles : Exit(i, 0)

SpecIds == Init /\ [][NextIds]_vars

\* ------------------------------------------ a monitor over two sessions
\* fire-and-forget runs for two identities, their workers pausing, and the
\* ticks of one monitor over the sessions that wait
NextTick ==
  \/ \E c \in Configs :
       RunWorkflow(c, FALSE, <<c.issueNumber>>,
                   [n \in {c.issueNumber} |-> Undefined], TRUE)
  \/ \E i \in DOMAIN handles : Exit(i, 0)
  \/ MonitorStart
  \/ TimerFire
  \/ \E i \in DOMAIN polls : \E items \in BoardItems(polls[i].issueNumbers) :
       FetchDone(i, items)
  \/ \E i \in DOMAIN polls : FetchFail(i)

SpecTick == Init /\ [][NextTick]_vars

\* ------------------------------------- ticks that run and fetches that succeed
\* runs of the orchestrator for one identity, its workers' exits and the ticks
\* of a monitor whose fetches return the board with item 200 in the feedback
\* status
NextResume ==
  \/ \E c \in Monitored, noMonitor \in BOOLEAN :
       \E graph \in Graphs(c.issueNumber) :
         RunWorkflow(c, FALSE, graph, [n \in Range(graph) |-> Undefined],
                     noMonitor)
  \/ \E i \in DOMAIN handles, code \in ExitCodes : Exit(i, code)
  \/ MonitorStart
  \/ TimerFire
  \/ \E i \in DOMAIN polls : FetchDone(i, Board)

\* the monitor is started, an armed timer fires (setTimeout) and a fetch
\* returns
FairTicks ==
  /\ WF_vars(MonitorStart)
  /\ WF_vars(TimerFire)
  /\ WF_vars(\E i \in DOMAIN polls : FetchDone(i, Board))

SpecResume == Init /\ [][NextResume]_vars /\ FairTicks

\* ------------------------------------------------- the manual commands
\* the handles this step created
Created == { i \in DOMAIN handles' : i > Len(handles) }

\* `resume <issue>`: the request goes to startOrResume as it is, with no
\* fork; an error is logged and the command exits with code 1. Without
\* --verbose the command goes on to `finally`, which closes the store, as
\* soon as startOrResume has returned; with --verbose it waits for the exit
\* of the worker first
ResumeCommand(c, verbose) ==
  LET r == startOrResume(db, [issueNumber |-> c.issueNumber,
                              persona |-> c.persona,
                              projectPath |-> c.projectPath, fork |-> FALSE])
  IN /\ WithinBounds(r.db, handles \o r.spawned)
     /\ db' = r.db
     /\ handles' = handles \o r.spawned
     /\ thrown' = r.error
     /\ emitted' = <<>>
     /\ fetched' = <<>>
     /\ node' = [node EXCEPT !.closed = IF verbose THEN @ ELSE @ \cup Created]
     /\ UNCHANGED <<monitor, polls, command, calls, runner, watcher>>

\* abortSession for each of the sessions, in the order of the rows
RECURSIVE abortEach(_, _)
abortEach(d, ids) ==
  IF ids = {} THEN d
  ELSE LET id == CHOOSE x \in ids : TRUE
       IN abortEach(abortSession(d, id), ids \ {id})

\* `abort <issue>`: the issue's sessions of the persona when one is given,
\* its active and waiting sessions otherwise; with none of them a warning
\* is logged and the command returns
AbortCommand(issueNumber, persona) ==
  LET sessions == getSessionsForIssue(db, issueNumber)
      toAbort == IF persona # Undefined
                 THEN { s \in sessions : s.persona = persona }
                 ELSE { s \in sessions : s.status \in {"active", "waiting"} }
      d == abortEach(db, { s.id : s \in toAbort })
  IN /\ WithinBounds(d, handles)
     /\ db' = d
     /\ thrown' = "none"
     /\ emitted' = <<>>
     /\ fetched' = <<>>
     /\ UNCHANGED <<handles, monitor, polls, command, calls, runner, node, watcher>>

\* the manual commands, over a store the workers' exits write to as well
NextCli ==
  \/ \E c \in Configs, verbose \in BOOLEAN : ResumeCommand(c, verbose)
  \/ \E c \in Configs :
       \E persona \in {c.persona, Undefined} :
         AbortCommand(c.issueNumber, persona)
  \/ \E i \in DOMAIN handles, code \in ExitCodes : Exit(i, code)
  \/ \E i \in DOMAIN handles : ProcessError(i)

SpecCli == Init /\ [][NextCli]_vars

\* ------------------------------------------- the workers of the commands
\* the coordinating process runs as long as no exception went uncaught
Alive == node.uncaught = "none"

\* `run <issue>`: EventLoop.run with the listeners of --verbose on the handle;
\* with --no-monitor run() returns once the worker is spawned and `finally`
\* closes the store, otherwise the run waits for the exit of the worker
RunCommand(c, graph, verbose, noMonitor) ==
  LET r == run(db, [issueNumber |-> c.issueNumber, persona |-> c.persona,
                    projectPath |-> c.projectPath, fork |-> FALSE],
               graph, [n \in Range(graph) |-> Undefined], noMonitor)
  IN /\ WithinBounds(r.db, handles \o r.spawned)
     /\ db' = r.db
     /\ handles' = handles \o r.spawned
     /\ thrown' = r.error
     /\ emitted' = <<>>
     /\ fetched' = <<>>
     /\ node' = [node EXCEPT
          !.listening = IF verbose THEN @ \cup Created ELSE @,
          !.closed = IF noMonitor THEN @ \cup Created ELSE @]
     /\ UNCHANGED <<monitor, polls, command, calls, runner, watcher>>

\* the process of handle i exits after the store the handle writes to was
\* closed: updateSession throws (the database connection is not open) before
\* anything is written and before 'exit' is emitted
ExitStoreClosed(i) ==
  /\ handles[i].state = "running"
  /\ i \in node.closed
  /\ handles' = [handles EXCEPT ![i].state = "exited"]
  /\ thrown' = "TypeError"
  /\ emitted' = <<>>
  /\ fetched' = <<>>
  /\ UNCHANGED <<db, monitor, polls, command, calls, runner, node, watcher>>

\* the process of handle i writes to its error stream: the handle emits
\* 'error' with the text, which reaches the listeners of the handle and with
\* none of them is thrown by emit, out of the stream's 'data' handler
Stderr(i) ==
  /\ handles[i].state = "running"
  /\ Cardinality({ k \in DOMAIN handles[i].emits :
                     handles[i].emits[k].signal = "error" }) < MaxChunks
  /\ IF i \in node.listening
     THEN /\ handles' = [handles EXCEPT
               ![i].emits = Append(@, [signal |-> "error"])]
          /\ node' = node
     ELSE /\ handles' = handles
          /\ node' = [node EXCEPT !.uncaught = "ERR_UNHANDLED_ERROR"]
  /\ thrown' = "none"
  /\ emitted' = <<>>
  /\ fetched' = <<>>
  /\ UNCHANGED <<db, monitor, polls, command, calls, runner, watcher>>

\* the cancellation of the session of handle i: abortSession(id), then kill()
\* on the handle, which signals the process when it has a pid
Cancel(i) ==
  /\ handles[i].state = "running"
  /\ WithinBounds(abortSession(db, handles[i].sessionId), handles)
  /\ db' = abortSession(db, handles[i].sessionId)
  /\ node' = [node EXCEPT !.killed = @ \cup {i}]
  /\ thrown' = "none"
  /\ emitted' = <<>>
  /\ fetched' = <<>>
  /\ UNCHANGED <<handles, monitor, polls, command, calls, runner, watcher>>

\* the process of handle i is ended by the signal: 'exit' with code null,
\* which waitForCompletion resolves as 1
SignalExit(i) ==
  /\ handles[i].state = "running"
  /\ i \in node.killed
  /\ i \notin node.closed
  /\ WithinBounds(onExit(db, handles[i].sessionId, Null), handles)
  /\ db' = onExit(db, handles[i].sessionId, Null)
  /\ handles' = [handles EXCEPT
       ![i] = settle([@ EXCEPT !.state = "exited",
                               !.emits = Append(@, [signal |-> "exit",
                                                    code |-> Null])],
                     [state |-> "resolved", code |-> 1])]
  /\ thrown' = "none"
  /\ emitted' = <<>>
  /\ fetched' = <<>>
  /\ UNCHANGED <<monitor, polls, command, calls, runner, node, watcher>>

\* the commands that spawn workers, what happens to the workers, and the
\* monitor of the process, as long as the process runs
NextWorkers ==
  \/ \E c \in Monitored, verbose \in BOOLEAN, noMonitor \in BOOLEAN :
       Alive /\ RunCommand(c, <<c.issueNumber>>, verbose, noMonitor)
  \/ \E c \in Monitored, verbose \in BOOLEAN :
       Alive /\ ResumeCommand(c, verbose)
  \/ \E i \in DOMAIN handles, code \in ExitCodes : Alive /\ Exit(i, code)
  \/ \E i \in DOMAIN handles : Alive /\ ExitStoreClosed(i)
  \/ \E i \in DOMAIN handles : Alive /\ SignalExit(i)
  \/ \E i \in DOMAIN handles : Alive /\ Stderr(i)
  \/ \E i \in DOMAIN handles : Alive /\ Cancel(i)
  \/ Alive /\ MonitorStart
  \/ Alive /\ TimerFire
  \/ \E i \in DOMAIN polls : Alive /\ FetchDone(i, Board)

SpecWorkers == Init /\ [][NextWorkers]_vars

\* ------------------------------------- two sessions, one of them sharing
\* the graphs of the runs: the session of issue 300 may track item 200 too
SharedGraphs(c) ==
  IF c.issueNumber = 200 THEN { <<200>> } ELSE { <<300>>, <<300, 200>> }

\* runs for two identities, the operations of the session manager on them, the
\* exits of their workers and the ticks of one monitor
NextApart ==
  \/ \E c \in Configs : \E graph \in SharedGraphs(c) :
       RunWorkflow(c, FALSE, graph, [n \in Range(graph) |-> Undefined], TRUE)
  \/ \E id \in Ids : AbortSession(id)
  \/ \E id \in Ids : MarkCompleted(id)
  \/ \E i \in DOMAIN handles, code \in ExitCodes : Exit(i, code)
  \/ MonitorStart
  \/ TimerFire
  \/ \E i \in DOMAIN polls : \E items \in BoardItems(polls[i].issueNumbers) :
       FetchDone(i, items)

SpecApart == Init /\ [][NextApart]_vars

\* ------------------------------------------------- the watcher's steps
\* an issue is created in the store, in status draft
CreateIssue(n) ==
  /\ n \notin DOMAIN watcher.issues
  /\ watcher' = [watcher EXCEPT !.issues =
       [x \in DOMAIN watcher.issues \cup {n} |->
          IF x = n THEN "draft" ELSE watcher.issues[x]]]
  /\ UNCHANGED <<db, handles, monitor, polls, emitted, fetched, thrown,
                 command, calls, runner, node>>

\* the refinement of an issue ends: the issue is marked ready
MarkReady(n) ==
  /\ n \in DOMAIN watcher.issues
  /\ watcher.issues[n] = "refining"
  /\ watcher' = [watcher EXCEPT !.issues[n] = "ready"]
  /\ UNCHANGED <<db, handles, monitor, polls, emitted, fetched, thrown,
                 command, calls, runner, node>>

\* one poll of the watcher: checkIssues from its first statement to its last
WatcherPoll ==
  /\ Len(watcherCheckIssues(watcher).owner) <= MaxSpawns
  /\ watcher' = watcherCheckIssues(watcher)
  /\ UNCHANGED <<db, handles, monitor, polls, emitted, fetched, thrown,
                 command, calls, runner, node>>

\* a spawned process exits: the callback given to spawnClaude clears the
\* active process of the issue it was spawned for
ProcessExit(pid) ==
  /\ pid \in watcher.alive
  /\ watcher' = [watcher EXCEPT
       !.alive = @ \ {pid},
       !.state = clearActiveProcess(@, watcher.owner[pid])]
  /\ UNCHANGED <<db, handles, monitor, polls, emitted, fetched, thrown,
                 command, calls, runner, node>>

NextWatcher ==
  \/ \E n \in IssueNumbers : CreateIssue(n)
  \/ \E n \in IssueNumbers : MarkReady(n)
  \/ WatcherPoll
  \/ \E pid \in 1..MaxSpawns : ProcessExit(pid)

SpecWatcher == Init /\ [][NextWatcher]_vars

\* every operation of the model
Next ==
  \/ NextManager
  \/ NextMonitor
  \/ \E c \in Configs, fork \in BOOLEAN, noMonitor \in BOOLEAN :
       \E graph \in Graphs(c.issueNumber) :
         \E nodeStatus \in [Range(graph) -> GraphStatuses] :
           RunWorkflow(c, fork, graph, nodeStatus, noMonitor)
  \/ MonitorStop
  \/ LeakedTimerFire
  \/ NextShared
  \/ NextHandle
  \/ NextOutput
  \/ NextCli
  \/ NextRun
  \/ NextIds
  \/ NextTick
  \/ NextResume
  \/ NextWorkers
  \/ NextApart
  \/ NextWatcher

Spec == Init /\ [][Next]_vars

\* ================================================================ claims
LiveWorkers(id) ==
  { i \in DOMAIN handles : handles[i].sessionId = id /\ handles[i].state = "running" }

\* the rows this step appended to session_events
AppendedEvents ==
  SubSeq(db'.session_events, Len(db.session_events) + 1, Len(db'.session_events))

\* C1: in every reachable state each session identity has at most one spawned
\* worker process that has not yet exited
C1_AtMostOneLiveWorker == \A id \in Ids : Cardinality(LiveWorkers(id)) <= 1

\* C2: startOrResume with fork unset on an identity whose session is active
\* throws SessionAlreadyRunning, leaves every table as it was (so the session's
\* status, resumeCount and waitingForStatuses, and the event log) and spawns
\* no worker
C2_ActiveStartRejected ==
  [][\A c \in Configs :
       (/\ hasSession(db, ConfigId(c))
        /\ db.sessions[ConfigId(c)].status = "active"
        /\ StartOrResume(c, FALSE))
       => (/\ thrown' = "SessionAlreadyRunningError"
           /\ db' = db
           /\ handles' = handles)]_vars

C2_Witness ==
  /\ thrown = "SessionAlreadyRunningError"
  /\ \E id \in DOMAIN db.sessions :
       db.sessions[id].status = "active" /\ LiveWorkers(id) # {}

Appended(id, eventType) ==
  { k \in DOMAIN AppendedEvents :
      /\ AppendedEvents[k].session_id = id
      /\ AppendedEvents[k].event_type = eventType }

Emitted(seq, type) == { k \in DOMAIN seq : seq[k].type = type }

TargetStatuses(session) ==
  Range(loadConfig(session.projectPath).personas[session.persona].targetStatuses)

\* C4: a step that resumes a session (a `resumed` event is appended) leaves its
\* resumeCount one above the value persisted before the step, at most one
\* resume happens in a step, and a monitor tick that resumes nothing leaves
\* resumeCount as it was, however many items changed in the tick
C4_ResumeIncrementsByOne ==
  [][\A id \in DOMAIN db.sessions :
       LET n == Cardinality(Appended(id, "resumed"))
       IN /\ n <= 1
          /\ n = 1 =>
               db'.sessions[id].resumeCount = db.sessions[id].resumeCount + 1
          /\ (fetched' # <<>> /\ n = 0) =>
               db'.sessions[id].resumeCount = db.sessions[id].resumeCount]_vars

\* a tick in which two items changed, the second one triggering the resume
C4_Witness ==
  /\ fetched # <<>>
  /\ Len(emitted) = 3
  /\ emitted[1].type = "statusChange"
  /\ emitted[2].type = "statusChange"
  /\ emitted[3].type = "resumeTriggered"
  /\ db.sessions[fetched[1].session.id].resumeCount = 1
  /\ db.sessions[fetched[1].session.id].status = "active"

\* C5: a monitor tick's handling of one waiting session triggers at most one
\* resume (one resumeTriggered, at most one worker spawned, at most one event
\* appended), and the items after the triggering one in the fetched map are not
\* evaluated: nothing is emitted after resumeTriggered and their stored
\* statuses stay as they were
C5_OneResumePerTick ==
  [][fetched' # <<>> =>
       LET f == fetched'[1]
           id == f.session.id
           trig == Emitted(emitted', "resumeTriggered")
       IN /\ Cardinality(trig) <= 1
          /\ Len(handles') <= Len(handles) + 1
          /\ Len(AppendedEvents) <= 1
          /\ Len(db'.status_transitions) - Len(db.status_transitions)
               = Cardinality(Emitted(emitted', "statusChange"))
          /\ \A k \in trig :
               /\ k = Len(emitted')
               /\ \A j \in DOMAIN f.statuses :
                    (\E t \in 1..(j - 1) :
                        f.statuses[t][1] = emitted'[k].triggerIssue)
                    => getIssueStatus(db', f.statuses[j][1], id)
                         = getIssueStatus(db, f.statuses[j][1], id)]_vars

\* the first of two fetched items triggered the resume, the second one also
\* changed to a resuming status and was left unevaluated
C5_Witness ==
  /\ fetched # <<>>
  /\ Len(fetched[1].statuses) = 2
  /\ Len(emitted) = 2
  /\ emitted[2].type = "resumeTriggered"
  /\ emitted[2].triggerIssue = fetched[1].statuses[1][1]
  /\ shouldResume(fetched[1].session, fetched[1].statuses[2][2])
  /\ getIssueStatus(db, fetched[1].statuses[2][1], fetched[1].session.id)
       # fetched[1].statuses[2][2]

\* C6: whenever a monitor tick marks a session completed, every item tracked
\* for the session has a stored status inside the role's target-status set
C6_CompletedOnlyWhenAllInTarget ==
  [][\A id \in DOMAIN db.sessions :
       (fetched' # <<>> /\ Appended(id, "completed") # {}) =>
         \A n \in getTrackedIssues(db', id) :
           getIssueStatus(db', n, id) \in TargetStatuses(db'.sessions[id])]_vars

\* C7: a tick that finds a waiting session with every tracked item fetched
\* inside the target-status set marks it completed and triggers no resume
C7_CompletionInsteadOfResume ==
  [][fetched' # <<>> =>
       LET f == fetched'[1]
           id == f.session.id
       IN (/\ db.sessions[id].status = "waiting"
           /\ { f.statuses[j][1] : j \in DOMAIN f.statuses }
                = getTrackedIssues(db, id)
           /\ \A j \in DOMAIN f.statuses :
                f.statuses[j][2] \in TargetStatuses(f.session))
          => (/\ db'.sessions[id].status = "completed"
              /\ Appended(id, "completed") # {}
              /\ Emitted(emitted', "resumeTriggered") = {}
              /\ handles' = handles)]_vars

\* the session of the end-to-end scenario: role architect, started by the
\* orchestrator (so waiting for the target statuses), tracking one item
E2E == generateSessionId(200, "architect", "/p")

E2ESession(d) ==
  /\ hasSession(d, E2E)
  /\ d.sessions[E2E].waitingForStatuses
       = DEFAULT_CONFIG.personas["architect"].targetStatuses
  /\ getTrackedIssues(d, E2E) = {200}

\* C8: in the scenario, the first exit 0 gives waiting with resumeCount 0; the
\* poll seeing item 200 become "Developer Review" records the transition and
\* resumes (resumeCount 1, active); the next exit 0 gives waiting; the poll
\* seeing the item become "Ready" completes the session with no further
\* resume, resumeCount staying 1
C8_EndToEnd ==
  [][E2ESession(db) =>
       /\ \A i \in DOMAIN handles :
            (handles[i].sessionId = E2E /\ Exit(i, 0))
            => /\ db'.sessions[E2E].status = "waiting"
               /\ db'.sessions[E2E].resumeCount = db.sessions[E2E].resumeCount
       /\ (/\ fetched' # <<>>
           /\ fetched'[1].statuses = <<<<200, "Developer Review">>>>
           /\ db.sessions[E2E].status = "waiting"
           /\ db.sessions[E2E].resumeCount = 0
           /\ getIssueStatus(db, 200, E2E) # "Developer Review")
          => /\ db'.status_transitions =
                  Append(db.status_transitions,
                         [issue_number |-> 200,
                          from_status |-> getIssueStatus(db, 200, E2E),
                          to_status |-> "Developer Review"])
             /\ db'.sessions[E2E].status = "active"
             /\ db'.sessions[E2E].resumeCount = 1
       /\ (/\ fetched' # <<>>
           /\ fetched'[1].statuses = <<<<200, "Ready">>>>
           /\ db.sessions[E2E].status = "waiting"
           /\ db.sessions[E2E].resumeCount = 1
           /\ getIssueStatus(db, 200, E2E) = "Developer Review")
          => /\ db'.sessions[E2E].status = "completed"
             /\ db'.sessions[E2E].resumeCount = 1
             /\ handles' = handles]_vars

\* C9: a tick whose status fetch throws emits an `error` notification and
\* arms the timer for the next tick, whichever command runs the monitor
C9_ErrorReportedAndRescheduled ==
  [][\A i \in DOMAIN polls :
       FetchFail(i) =>
         /\ Emitted(emitted', "error") # {}
         /\ monitor'.timer = "armed"]_vars

\* C10: at most one tick is in flight and at most one timer is armed
ArmedTimers == monitor.leaked + (IF monitor.timer = "armed" THEN 1 ELSE 0)

C10_OneTickOneTimer == Len(polls) <= 1 /\ ArmedTimers <= 1

\* the workers spawned with the resume invocation for the session
ResumeWorkers(id) ==
  { i \in DOMAIN handles :
      handles[i].sessionId = id /\ handles[i].invocation = "--resume" }

\* C11: with two processes sharing the store and one status change on the
\* board, the waiting session is resumed at most once: at most one worker is
\* spawned by a resume, and once both processes are outside checkSession the
\* resumeCount equals the number of workers spawned by a resume
C11_OneResumePerChange ==
  /\ Cardinality(ResumeWorkers(E2E)) <= 1
  /\ (hasSession(db, E2E) /\ \A p \in Procs : calls[p].pc = "idle")
       => db.sessions[E2E].resumeCount = Cardinality(ResumeWorkers(E2E))

\* C12: a session whose status is completed or aborted keeps that status in
\* every step, except that a startOrResume (fork unset) may replace an aborted
\* session whose resumeCount is 0
C12_TerminalStatuses ==
  [][\A id \in DOMAIN db.sessions :
       db.sessions[id].status \in {"completed", "aborted"} =>
         \/ db'.sessions[id].status = db.sessions[id].status
         \/ /\ db.sessions[id].status = "aborted"
            /\ db.sessions[id].resumeCount = 0
            /\ \E c \in Configs : ConfigId(c) = id /\ StartOrResume(c, FALSE)]_vars

\* C13: every promise returned by waitForCompletion on a handle whose process
\* has exited or failed to spawn is settled (resolved with the exit code, or
\* rejected), whenever it was requested
C13_SettlesOnceEnded ==
  \A i \in DOMAIN handles :
    handles[i].state # "running" =>
      \A k \in DOMAIN handles[i].promises :
        handles[i].promises[k].state # "pending"

\* the events one delivery of the whole text written so far would give
OneDelivery(handle) == onData(SessionHandle(handle.sessionId, handle.invocation,
                                            handle.attempt), handle.written)

\* C14: once every byte written has been delivered, whatever the chunks, the
\* handle has emitted the sequence of message and raw events that one
\* delivery of the whole text gives
C14_ChunkingIndependent ==
  \A i \in DOMAIN handles :
    handles[i].stdout = <<>> =>
      handles[i].parsed = OneDelivery(handles[i]).parsed

\* the complete lines of the text the worker has written
WrittenLines(handle) ==
  LET lines == split(toString(handle.written), <<>>)
  IN SubSeq(lines, 1, Len(lines) - 1)

\* C15: once every byte written has been delivered, the handle has emitted
\* exactly one event per complete line of the output, in order: message for a
\* line that is a valid record, raw carrying the line for any other
C15_OneEventPerLine ==
  \A i \in DOMAIN handles :
    handles[i].stdout = <<>> =>
      LET lines == WrittenLines(handles[i])
      IN /\ Len(handles[i].parsed) = Len(lines)
         /\ \A k \in DOMAIN lines :
              handles[i].parsed[k] =
                IF JSONparses(lines[k])
                THEN [type |-> "message", event |-> trim(lines[k])]
                ELSE [type |-> "raw", line |-> lines[k]]

\* the handle this step spawned, when it spawned exactly one
Spawned == handles'[Len(handles')]

C17_AbortFrame ==
  [][\A id \in Ids :
       AbortSession(id) =>
         /\ handles' = handles
         /\ IF hasSession(db, id)
            THEN /\ db'.sessions[id] = [db.sessions[id] EXCEPT !.status = "aborted"]
                 /\ AppendedEvents = <<[session_id |-> id, event_type |-> "failed",
                                        event_data |-> [reason |-> "aborted"]]>>
                 /\ db'.issue_graph = db.issue_graph
                 /\ db'.status_transitions = db.status_transitions
                 /\ \A other \in DOMAIN db.sessions \ {id} :
                      db'.sessions[other] = db.sessions[other]
            ELSE db' = db]_vars

\* a resumed session aborted while its worker runs and its items are tracked
C17_Witness ==
  \E id \in DOMAIN db.sessions :
    /\ db.sessions[id].status = "aborted"
    /\ db.sessions[id].resumeCount = 1
    /\ db.session_events[Len(db.session_events)] =
         [session_id |-> id, event_type |-> "failed",
          event_data |-> [reason |-> "aborted"]]
    /\ LiveWorkers(id) # {}
    /\ getTrackedIssues(db, id) # {}

\* C18: startOrResume (fork unset) on a failed or aborted session with
\* resumeCount 0 replaces it: same rows, status active, resumeCount 0, one
\* `started` event appended and a worker spawned with the fresh-start invocation
C18_Replace ==
  [][\A c \in Configs :
       (/\ hasSession(db, ConfigId(c))
        /\ db.sessions[ConfigId(c)].status \in {"failed", "aborted"}
        /\ db.sessions[ConfigId(c)].resumeCount = 0
        /\ StartOrResume(c, FALSE))
       => /\ thrown' = "none"
          /\ DOMAIN db'.sessions = DOMAIN db.sessions
          /\ db'.sessions[ConfigId(c)].status = "active"
          /\ db'.sessions[ConfigId(c)].resumeCount = 0
          /\ AppendedEvents = <<[session_id |-> ConfigId(c),
                                 event_type |-> "started",
                                 event_data |-> [issueNumber |-> c.issueNumber,
                                                 persona |-> c.persona]]>>
          /\ Len(handles') = Len(handles) + 1
          /\ Spawned.sessionId = ConfigId(c)
          /\ Spawned.invocation = "--session-id"]_vars

\* a session started again after its first worker failed
C18_Witness ==
  /\ Len(handles) = 2
  /\ handles[1].emits = <<[signal |-> "exit", code |-> 1]>>
  /\ handles[2].sessionId = handles[1].sessionId
  /\ handles[2].invocation = "--session-id"
  /\ db.sessions[handles[2].sessionId].status = "active"
  /\ db.sessions[handles[2].sessionId].resumeCount = 0
  /\ db.session_events[Len(db.session_events)].event_type = "started"

\* the session of config c is one startOrResume resumes
Resumable(c) ==
  /\ hasSession(db, ConfigId(c))
  /\ db.sessions[ConfigId(c)].status # "active"
  /\ ~ (/\ db.sessions[ConfigId(c)].status \in {"failed", "aborted"}
        /\ db.sessions[ConfigId(c)].resumeCount = 0)

\* C19: a startOrResume that resumes makes the session active, appends one
\* `resumed` event, and spawns a worker with the resume invocation for the
\* session's identity; the attempt number in the invocation and the one in
\* the event both equal the resumeCount persisted by the call
C19_ResumePath ==
  [][\A c \in Configs :
       (Resumable(c) /\ StartOrResume(c, FALSE))
       => /\ thrown' = "none"
          /\ db'.sessions[ConfigId(c)].status = "active"
          /\ AppendedEvents =
               <<[session_id |-> ConfigId(c), event_type |-> "resumed",
                  event_data |->
                    [resumeCount |-> db'.sessions[ConfigId(c)].resumeCount]]>>
          /\ Len(handles') = Len(handles) + 1
          /\ Spawned.sessionId = ConfigId(c)
          /\ Spawned.invocation = "--resume"
          /\ Spawned.attempt = db'.sessions[ConfigId(c)].resumeCount]_vars

\* a session resumed for the second time
C19_Witness ==
  /\ Len(handles) = 3
  /\ handles[3].invocation = "--resume"
  /\ handles[3].attempt = 2
  /\ db.sessions[handles[3].sessionId].resumeCount = 2
  /\ db.sessions[handles[3].sessionId].status = "active"
  /\ db.session_events[Len(db.session_events)].event_type = "resumed"

\* C20: startOrResume with fork set on an identity that has a session succeeds
\* and leaves an active session with resumeCount 0, a `started` event and a
\* worker spawned with the fresh-start invocation
C20_ForkStartsNew ==
  [][\A c \in Configs :
       (hasSession(db, ConfigId(c)) /\ StartOrResume(c, TRUE))
       => /\ thrown' = "none"
          /\ db'.sessions[ConfigId(c)].status = "active"
          /\ db'.sessions[ConfigId(c)].resumeCount = 0
          /\ Appended(ConfigId(c), "started") # {}
          /\ Len(handles') = Len(handles) + 1
          /\ Spawned.invocation = "--session-id"]_vars

C22_SessionNotFound ==
  [][/\ \A c \in Configs :
          (~hasSession(db, ConfigId(c)) /\ \E verbose \in BOOLEAN : ResumeCommand(c, verbose))
          => /\ thrown' = "SessionNotFoundError"
             /\ db' = db
             /\ handles' = handles
     /\ \A c \in Configs :
          \A persona \in {c.persona, Undefined} :
            (~hasSession(db, ConfigId(c))
               /\ AbortCommand(c.issueNumber, persona))
            => /\ thrown' = "SessionNotFoundError"
               /\ db' = db
               /\ handles' = handles]_vars

\* the rows this step appended to status_transitions
AppendedTransitions ==
  SubSeq(db'.status_transitions, Len(db.status_transitions) + 1,
         Len(db'.status_transitions))

Changed(f) ==
  { j \in DOMAIN f.statuses :
      getIssueStatus(db, f.statuses[j][1], f.session.id) # f.statuses[j][2] }

\* the new value is the role's feedback status or one of the statuses the
\* session is waiting for
Resuming(session, newStatus) ==
  \/ newStatus = DEFAULT_CONFIG.personas[session.persona].feedbackStatus
  \/ \E k \in DOMAIN session.waitingForStatuses :
       session.waitingForStatuses[k] = newStatus

C25_ReturnsAfterTerminal ==
  [][(runner.pc \in {"waitForCompletion", "start", "sleep"}
        /\ runner'.pc \in {"returned", "rejected"})
     => /\ db'.sessions[handles[runner.handle].sessionId].status
             \in TerminalStatuses
        /\ ~monitor'.running]_vars

\* the session status an event stands for
ImpliedStatus(e) ==
  CASE e.event_type \in {"started", "resumed"} -> "active"
    [] e.event_type = "paused" -> "waiting"
    [] e.event_type = "completed" -> "completed"
    [] e.event_type = "crashed" -> "failed"
    [] e.event_type = "failed" ->
         IF "reason" \in DOMAIN e.event_data /\ e.event_data.reason = "aborted"
         THEN "aborted" ELSE "failed"

C27_AppendOnly ==
  [][/\ Len(db'.session_events) >= Len(db.session_events)
     /\ SubSeq(db'.session_events, 1, Len(db.session_events))
          = db.session_events
     /\ \A id \in Ids :
          /\ Len(getSessionEvents(db', id)) >= Len(getSessionEvents(db, id))
          /\ SubSeq(getSessionEvents(db', id), 1, Len(getSessionEvents(db, id)))
               = getSessionEvents(db, id)]_vars

\* a session whose log holds two events of the same kind around a resume
C27_Witness ==
  \E id \in Ids :
    LET es == getSessionEvents(db, id)
    IN /\ Len(es) = 4
       /\ es[1].event_type = "started"
       /\ es[2].event_type = "paused"
       /\ es[3].event_type = "resumed"
       /\ es[4].event_type = "paused"

\* the identity a session row was created for
Identity(session) ==
  <<session.projectPath, session.persona, session.issueNumber>>

C29_ResumeCountMonotonic ==
  [][\A id \in DOMAIN db'.sessions :
       IF hasSession(db, id)
       THEN db'.sessions[id].resumeCount >= db.sessions[id].resumeCount
       ELSE db'.sessions[id].resumeCount = 0]_vars

\* a session resumed twice, the second time after its worker had failed
C29_Witness ==
  \E id \in DOMAIN db.sessions :
    LET es == getSessionEvents(db, id)
    IN /\ db.sessions[id].resumeCount = 2
       /\ Len(es) = 5
       /\ es[4].event_type = "failed"
       /\ es[5].event_type = "resumed"

\* the number of fields in which two requests differ
FieldsApart(a, b) ==
  (IF a.projectPath # b.projectPath THEN 1 ELSE 0)
  + (IF a.persona # b.persona THEN 1 ELSE 0)
  + (IF a.issueNumber # b.issueNumber THEN 1 ELSE 0)

\* C30: the session id is a function of (projectPath, persona, issueNumber)
\* alone: two requests that differ in exactly one field have different names
\* and different ids, and whatever the store holds and whatever was called
\* before, startOrResume for a request acts on the id of that request, whose
\* row is the row of the request's identity
C30_IdOfIdentity ==
  [][/\ \A a, b \in Requests :
          FieldsApart(a, b) = 1
          => /\ sessionName(a.issueNumber, a.persona, a.projectPath)
                  # sessionName(b.issueNumber, b.persona, b.projectPath)
             /\ ConfigId(a) # ConfigId(b)
     /\ \A c \in Requests :
          (StartOrResume(c, FALSE) /\ thrown' = "none")
          => /\ Spawned.sessionId = ConfigId(c)
             /\ hasSession(db', ConfigId(c))
             /\ Identity(db'.sessions[ConfigId(c)])
                  = <<c.projectPath, c.persona, c.issueNumber>>
             /\ \A id \in DOMAIN db.sessions :
                  Identity(db.sessions[id])
                    = <<c.projectPath, c.persona, c.issueNumber>>
                  => id = ConfigId(c)]_vars

\* three sessions, each of them one field apart from another one, and the
\* first of them resumed under the id it was started with
C30_Witness ==
  /\ Len(handles) = 3
  /\ handles[3].invocation = "--resume"
  /\ \E a, b \in Requests :
       /\ FieldsApart(a, b) = 1
       /\ a.persona # b.persona
       /\ hasSession(db, ConfigId(a))
       /\ hasSession(db, ConfigId(b))
       /\ handles[3].sessionId = ConfigId(a)
       /\ handles[1].sessionId = ConfigId(a)

\* C31: a tick whose status fetch fails is skipped as a whole: the failing
\* step changes nothing in the store and spawns no worker, and the tick has
\* written nothing before it (no transition, no stored status, no resume and
\* no completion for any session of the tick)
C31_FailedTickSkipped ==
  [][\A i \in DOMAIN polls :
       FetchFail(i)
       => /\ ~polls[i].wrote
          /\ db' = db
          /\ handles' = handles]_vars

\* the feedback status of the role of a session
FeedbackStatus(session) ==
  loadConfig(session.projectPath).personas[session.persona].feedbackStatus

\* a tick stores the feedback status as the new status of an item of a session
\* whose persisted status is waiting only together with the resume of the
\* session
NoStoreWithoutResume ==
  fetched' # <<>> =>
    LET f == fetched'[1]
        id == f.session.id
    IN \A j \in DOMAIN f.statuses :
         (/\ db.sessions[id].status = "waiting"
          /\ f.statuses[j][2] = FeedbackStatus(f.session)
          /\ getIssueStatus(db, f.statuses[j][1], id) # f.statuses[j][2]
          /\ getIssueStatus(db', f.statuses[j][1], id) = f.statuses[j][2])
         => /\ Appended(id, "resumed") # {}
            /\ db'.sessions[id].status = "active"
            /\ db'.sessions[id].resumeCount = db.sessions[id].resumeCount + 1

\* session E2E waits with n resumes behind it, item 200 is stored with a
\* status other than the feedback status the board shows for it, and the
\* bounds leave room for one more worker
ResumePending(n) ==
  /\ hasSession(db, E2E)
  /\ db.sessions[E2E].status = "waiting"
  /\ db.sessions[E2E].resumeCount = n
  /\ getIssueStatus(db, 200, E2E) # FeedbackStatus(db.sessions[E2E])
  /\ Len(db.session_events) < MaxEvents
  /\ Len(db.status_transitions) < MaxTransitions
  /\ Len(handles) < MaxWorkers

\* C32: no resume is lost: a tick never stores the feedback status as the new
\* status of an item of a waiting session without resuming the session, and
\* with ticks running and fetches succeeding a waiting session with such an
\* item eventually is active with its resumeCount one higher
C32_NoLostResume ==
  /\ [][NoStoreWithoutResume]_vars
  /\ \A n \in 0..MaxWorkers :
       ResumePending(n)
       ~> (/\ hasSession(db, E2E)
           /\ db.sessions[E2E].status = "active"
           /\ db.sessions[E2E].resumeCount = n + 1)

\* the tick found item 200 moved to the feedback status, stored it and resumed
\* the waiting session
C32_Witness ==
  /\ fetched # <<>>
  /\ fetched[1].session.id = E2E
  /\ hasSession(db, E2E)
  /\ getIssueStatus(db, 200, E2E) = FeedbackStatus(db.sessions[E2E])
  /\ db.sessions[E2E].status = "active"
  /\ db.sessions[E2E].resumeCount = 1
  /\ db.session_events[Len(db.session_events)].event_type = "resumed"
  /\ Len(handles) = 2
  /\ handles[2].state = "running"

\* C33: a monitor tick resumes or completes a session only if the session's
\* persisted status is waiting at the moment the tick acts on it: on a session
\* that is active, completed, failed or aborted by then the tick changes no
\* field of the row, records no event for it and spawns no worker
C33_TickActsOnWaitingOnly ==
  [][fetched' # <<>> =>
       LET id == fetched'[1].session.id
       IN db.sessions[id].status # "waiting"
          => /\ db'.sessions[id] = db.sessions[id]
             /\ getSessionEvents(db', id) = getSessionEvents(db, id)
             /\ handles' = handles]_vars

\* C34: no session stays active after its worker has exited: whenever the
\* process of a handle exits, whoever called startOrResume for it and whether
\* or not the caller has closed the store since, the session's status is
\* updated to waiting or failed and the matching event (paused or failed) is
\* recorded
C34_ExitUpdatesStatus ==
  [][\A i \in DOMAIN handles :
       (handles[i].state = "running" /\ handles'[i].state = "exited")
       => LET id == handles[i].sessionId
          IN \/ /\ db'.sessions[id].status = "waiting"
                /\ Appended(id, "paused") # {}
             \/ /\ db'.sessions[id].status = "failed"
                /\ Appended(id, "failed") # {}]_vars

\* C35: output on a worker's error stream is only forwarded as an `error`
\* event of its handle: it changes no table of the store (so no status, no
\* resumeCount, no event) and does not interrupt the coordinating process or
\* its polling loop, whether or not anyone listens for the event on the handle
C35_StderrOnlyForwarded ==
  [][\A i \in DOMAIN handles :
       Stderr(i)
       => /\ db' = db
          /\ node'.uncaught = "none"
          /\ monitor' = monitor
          /\ polls' = polls]_vars

\* C36: after abortSession(id) followed by kill() on the session's handle, the
\* exit of the killed worker, with any code or none, leaves the session's
\* status aborted
C36_AbortedStaysAborted ==
  [][\A i \in node.killed :
       (/\ handles[i].state = "running"
        /\ handles'[i].state = "exited"
        /\ db.sessions[handles[i].sessionId].status = "aborted")
       => db'.sessions[handles[i].sessionId].status = "aborted"]_vars

\* an armed timer fires and a status fetch comes back, with a result or an
\* error
FairTimers ==
  /\ WF_vars(TimerFire)
  /\ WF_vars(LeakedTimerFire)
  /\ WF_vars(\E i \in DOMAIN polls :
               \/ \E items \in BoardItems(polls[i].issueNumbers) :
                    FetchDone(i, items)
               \/ FetchFail(i))

SpecQuiesce == Init /\ [][NextTimer]_vars /\ FairTimers

\* no tick in flight and no timer armed
Quiescent ==
  /\ polls = <<>>
  /\ ArmedTimers = 0

\* C37: once stop() has been called and start() is not called again the
\* monitor becomes quiescent: a poll that finds the monitor stopped reads no
\* session, starts no fetch and arms no timer, no new tick begins, and
\* eventually no tick is in flight and no timer armed
C37_StopQuiesces ==
  /\ [][(~monitor.running /\ (TimerFire \/ LeakedTimerFire))
          => /\ polls' = polls
             /\ db' = db
             /\ ArmedTimers' = ArmedTimers - 1]_vars
  /\ [][(~monitor.running /\ ~monitor'.running)
          => Len(polls') <= Len(polls)]_vars
  /\ (<>[](~monitor.running) => <>[]Quiescent)

\* the timer armed by the tick that was in flight when stop() was called has
\* fired and found the monitor stopped
C37_Witness ==
  /\ ~monitor.running
  /\ monitor.timer = "fired"
  /\ Quiescent

\* what the store holds of a session: its row, its event log and its tracked
\* items with their statuses
SessionView(d, id) ==
  [row |-> getSession(d, id),
   events |-> getSessionEvents(d, id),
   items |-> [k \in { x \in DOMAIN d.issue_graph : x[2] = id } |->
                d.issue_graph[k]]]

\* the sessions of which this step changed something
ChangedSessions == { id \in Ids : SessionView(db', id) # SessionView(db, id) }

\* C38: sessions of distinct identities are independent: a step of
\* startOrResume, abortSession, markCompleted, a worker's exit or a tick's
\* handling of one waiting session changes the row, the event log and the
\* tracked items of no session but its own
C38_SessionsIndependent ==
  [][/\ Cardinality(ChangedSessions) <= 1
     /\ \A i \in DOMAIN handles' :
          (i \notin DOMAIN handles \/ handles'[i] # handles[i])
          => ChangedSessions \subseteq {handles'[i].sessionId}
     /\ \A id \in Ids :
          (AbortSession(id) \/ MarkCompleted(id))
          => ChangedSessions \subseteq {id}
     /\ fetched' # <<>>
          => ChangedSessions \subseteq {fetched'[1].session.id}]_vars

\* both sessions exist, both track item 200, and the tick has just resumed
\* one of them on the item's new status while the other waits as before
C38_Witness ==
  /\ \A id \in Ids : hasSession(db, id)
  /\ \A id \in Ids : 200 \in getTrackedIssues(db, id)
  /\ fetched # <<>>
  /\ \E id \in Ids :
       /\ fetched[1].session.id = id
       /\ db.sessions[id].status = "active"
       /\ db.sessions[id].resumeCount = 1
       /\ \A other \in Ids \ {id} :
            /\ db.sessions[other].status = "waiting"
            /\ db.sessions[other].resumeCount = 0
            /\ getIssueStatus(db, 200, other) # getIssueStatus(db, 200, id)

\* C39: in the status-trigger watcher the number of spawned processes
\* recorded as active never exceeds maxConcurrent
C39_AtMostMaxConcurrent ==
  Cardinality(getActiveProcesses(watcher.state)) <= maxConcurrent

====
